---- MODULE Spec2Model ----
(***************************************************************************)
(* Identity resolution core of the drishyamitra backend: photos, the faces *)
(* detected in them, the persons faces are linked to, and the operations   *)
(* that create, link and delete them (routes/*.py over services/*.py).     *)
(* Every request is one action where the handlers run one at a time; the   *)
(* specifications about requests served side by side take them in steps.   *)
(***************************************************************************)
EXTENDS Integers, Sequences, FiniteSets, TLC

\* ------------------------------------------------------------------------
\* Bounds of the model
\* ------------------------------------------------------------------------
MaxUploads == 2
MaxFaceId == 2
MaxPersonId == 2
MaxFacesPerPhoto == 2
MaxLibrary == 5

\* ------------------------------------------------------------------------
\* Input domains
\* ------------------------------------------------------------------------
Users == {1, 2}
Hashes == {"h1"}
DupHashes == {"hA", "hB"}
NullHash == "NULL"

\* A name is a sequence of characters; SP is the blank.  RawNames are the
\* names a request may carry: none, one with blanks around it, a plain one.
SP == " "
RawNames == {<<>>, <<SP, "A">>, <<"B">>}

\* Embedding vectors (their norms are integers, so cosines are exact
\* hundredths).  NoEmbedding is the NULL column / a failed extraction.
\* Extractions are what the extractor returns for a face, Queries what
\* find_matching_person is asked about.
NoEmbedding == <<>>
Extractions == {NoEmbedding, <<1, 0>>, <<-1, 0>>}
Queries == {<<1, 0>>, <<-1, 0>>, <<3, 4>>, <<0, 0>>}

\* Thresholds in hundredths; DefaultThreshold is the default of
\* find_matching_person.
DefaultThreshold == 60
Thresholds == {-100, DefaultThreshold, 100}

NullId == 0
NullModel == "NULL"
FacenetModel == "facenet"

\* calls holds, for every request running alongside others, what it was
\* asked and what it has read so far; it is empty while requests run one at
\* a time.
VARIABLES photos, faces, persons, clock, last, calls
vars == <<photos, faces, persons, clock, last, calls>>

\* ------------------------------------------------------------------------
\* Helpers
\* ------------------------------------------------------------------------
Max(S) == CHOOSE m \in S : \A x \in S : x <= m
Min(S) == CHOOSE m \in S : \A x \in S : m <= x

\* The id a new row gets: SQLite's rowid, one more than the largest in use.
NextId(rows) == IF rows = {} THEN 1 ELSE Max({r.id : r \in rows}) + 1

RECURSIVE SortedSeq(_)
SortedSeq(S) == IF S = {} THEN <<>> ELSE <<Min(S)>> \o SortedSeq(S \ {Min(S)})

Row(rows, i) == CHOOSE r \in rows : r.id = i
HasRow(rows, i) == \E r \in rows : r.id = i

\* str.strip(): leading and trailing blanks removed.
RECURSIVE lstrip(_)
lstrip(s) == IF s # <<>> /\ Head(s) = SP THEN lstrip(Tail(s)) ELSE s
RECURSIVE rstrip(_)
rstrip(s) == IF s # <<>> /\ s[Len(s)] = SP THEN rstrip(SubSeq(s, 1, Len(s) - 1)) ELSE s
strip(s) == rstrip(lstrip(s))

\* The state of the relational store.
Db(ph, fs, ps) == [photos |-> ph, faces |-> fs, persons |-> ps]

\* What the last request was and what it returned.
Last(op, ids, names, res, aux) ==
    [op |-> op, ids |-> ids, names |-> names, res |-> res, aux |-> aux]

\* ------------------------------------------------------------------------
\* models/face.py
\* ------------------------------------------------------------------------
\* Mutant: the vector is written without the model tag.
set_embedding_untagged(face, vector, model_name) ==
    [face EXCEPT !.embedding = vector]

set_embedding(face, vector, model_name) ==
    [face EXCEPT !.embedding = vector, !.embedding_model = model_name]

get_embedding(face) == face.embedding

\* ------------------------------------------------------------------------
\* services/face_service.py
\* ------------------------------------------------------------------------
\* Face rows for the detector's boxes, in detection order; no embedding and
\* no person yet.
save_detected_faces(db, photo_id, n) ==
    LET first == NextId(db.faces)
        new == {[id |-> first + i - 1, photo_id |-> photo_id, person_id |-> NullId,
                 box |-> i, confidence |-> 90,
                 embedding |-> NoEmbedding, embedding_model |-> NullModel] : i \in 1..n}
    IN  Db(db.photos, db.faces \cup new, db.persons)

\* Mutant: the lookup never finds a person.
first_person_none(ps, person_name, user_id) == NullId

\* The person row a find-or-create by exact name yields.
first_person(ps, person_name, user_id) ==
    LET found == {p \in ps : p.name = person_name /\ p.user_id = user_id}
    IN  IF found = {} THEN NullId ELSE Min({p.id : p \in found})

\* Mutant: the person is found or created before the face is looked up.
assign_face_to_person_person_first(db, face_id, person_name, user_id) ==
    LET existing == first_person(db.persons, person_name, user_id)
        pid == IF existing # NullId THEN existing ELSE NextId(db.persons)
        ps == IF existing # NullId THEN db.persons
              ELSE db.persons \cup {[id |-> pid, user_id |-> user_id, name |-> person_name]}
    IN  IF ~HasRow(db.faces, face_id)
        THEN [db |-> Db(db.photos, db.faces, ps), found |-> FALSE]
        ELSE [db |-> Db(db.photos,
                        {IF f.id = face_id THEN [f EXCEPT !.person_id = pid] ELSE f
                            : f \in db.faces},
                        ps),
              found |-> TRUE]

assign_face_to_person(db, face_id, person_name, user_id) ==
    IF ~HasRow(db.faces, face_id)
    THEN [db |-> db, found |-> FALSE]
    ELSE LET existing == first_person(db.persons, person_name, user_id)
             pid == IF existing # NullId THEN existing ELSE NextId(db.persons)
             ps == IF existing # NullId THEN db.persons
                   ELSE db.persons \cup {[id |-> pid, user_id |-> user_id, name |-> person_name]}
             fs == {IF f.id = face_id THEN [f EXCEPT !.person_id = pid] ELSE f : f \in db.faces}
         IN  [db |-> Db(db.photos, fs, ps), found |-> TRUE]

\* Cosine similarity in hundredths: dot(a, b) / (|a| * |b|), 0 when either
\* norm is zero.
RECURSIVE dot(_, _)
dot(vec_a, vec_b) ==
    IF vec_a = <<>> THEN 0 ELSE Head(vec_a) * Head(vec_b) + dot(Tail(vec_a), Tail(vec_b))

norm(vec) == CHOOSE n \in 0..(dot(vec, vec)) : n * n = dot(vec, vec)

\* Mutant: a vector of norm zero is taken to be like every vector.
compute_similarity_unguarded(vec_a, vec_b) ==
    IF norm(vec_a) = 0 \/ norm(vec_b) = 0 THEN 100
    ELSE (100 * dot(vec_a, vec_b)) \div (norm(vec_a) * norm(vec_b))

compute_similarity(vec_a, vec_b) ==
    LET norm_a == norm(vec_a)
        norm_b == norm(vec_b)
    IN  IF norm_a = 0 \/ norm_b = 0 THEN 0
        ELSE (100 * dot(vec_a, vec_b)) \div (norm_a * norm_b)

\* Mutant: a face that already has a person keeps its old embedding.
store_embedding_unless_linked(db, face_id, embedding, model_name) ==
    Db(db.photos,
       {IF f.id = face_id /\ f.person_id = NullId
        THEN set_embedding(f, embedding, model_name) ELSE f : f \in db.faces},
       db.persons)

store_embedding(db, face_id, embedding, model_name) ==
    Db(db.photos,
       {IF f.id = face_id THEN set_embedding(f, embedding, model_name) ELSE f : f \in db.faces},
       db.persons)

\* Mutant: the faces with a stored embedding in the photos of every user.
get_all_embeddings_any_user(db, user_id, scan) ==
    LET Selected(i) == HasRow(db.faces, i) /\ Row(db.faces, i).embedding # NoEmbedding
    IN  SelectSeq(scan, Selected)

\* The faces with a stored embedding in the photos of user_id, as a list of
\* face ids in the order the query returns them (scan is that order over
\* all face ids: the query has no ORDER BY).
get_all_embeddings_for_user(db, user_id, scan) ==
    LET Selected(i) ==
            /\ HasRow(db.faces, i)
            /\ Row(db.faces, i).embedding # NoEmbedding
            /\ \E p \in db.photos : p.id = Row(db.faces, i).photo_id /\ p.user_id = user_id
            /\ get_embedding(Row(db.faces, i)) # NoEmbedding
    IN  SelectSeq(scan, Selected)

\* face.person: the row the link names, if there is one.
person_of(db, face) ==
    IF HasRow(db.persons, face.person_id) THEN face.person_id ELSE NullId

\* The loop of find_matching_person from position i of stored on.
RECURSIVE match_loop(_, _, _, _, _, _, _)
match_loop(db, stored, i, embedding, threshold, best_similarity, best_person) ==
    IF i > Len(stored) THEN best_person
    ELSE LET face == Row(db.faces, stored[i])
             sim == compute_similarity(embedding, get_embedding(face))
         IN  IF face.person_id = NullId
             THEN match_loop(db, stored, i + 1, embedding, threshold,
                             best_similarity, best_person)
             ELSE IF sim >= threshold /\ sim > best_similarity
             THEN match_loop(db, stored, i + 1, embedding, threshold, sim, person_of(db, face))
             ELSE match_loop(db, stored, i + 1, embedding, threshold,
                             best_similarity, best_person)

\* Mutant: the threshold is not applied.
find_matching_person_any(db, embedding, user_id, threshold, scan) ==
    match_loop(db, get_all_embeddings_for_user(db, user_id, scan), 1,
               embedding, -100, -101, NullId)

find_matching_person(db, embedding, user_id, threshold, scan) ==
    match_loop(db, get_all_embeddings_for_user(db, user_id, scan), 1,
               embedding, threshold, -100, NullId)

\* Mutant: the matcher's person replaces the link a face already has.
RECURSIVE embed_loop_relink(_, _, _, _, _, _, _)
embed_loop_relink(db, face_ids, i, extracted, user_id, scan, auto_matched) ==
    IF i > Len(face_ids) THEN [db |-> db, auto_matched |-> auto_matched]
    ELSE IF extracted[Row(db.faces, face_ids[i]).box] = NoEmbedding
    THEN embed_loop_relink(db, face_ids, i + 1, extracted, user_id, scan, auto_matched)
    ELSE LET embedding == extracted[Row(db.faces, face_ids[i]).box]
             stored == store_embedding(db, face_ids[i], embedding, FacenetModel)
             matched_person == find_matching_person(stored, embedding, user_id,
                                                    DefaultThreshold, scan)
         IN  IF matched_person # NullId
             THEN embed_loop_relink(Db(stored.photos,
                                       {IF f.id = face_ids[i]
                                        THEN [f EXCEPT !.person_id = matched_person]
                                        ELSE f : f \in stored.faces},
                                       stored.persons),
                                    face_ids, i + 1, extracted, user_id, scan, auto_matched + 1)
             ELSE embed_loop_relink(stored, face_ids, i + 1, extracted, user_id, scan,
                                    auto_matched)

\* Mutant: the loop ends at the first face without an embedding.
RECURSIVE embed_loop_break(_, _, _, _, _, _, _)
embed_loop_break(db, face_ids, i, extracted, user_id, scan, auto_matched) ==
    IF i > Len(face_ids) THEN [db |-> db, auto_matched |-> auto_matched]
    ELSE IF extracted[Row(db.faces, face_ids[i]).box] = NoEmbedding
    THEN [db |-> db, auto_matched |-> auto_matched]
    ELSE LET embedding == extracted[Row(db.faces, face_ids[i]).box]
             stored == store_embedding(db, face_ids[i], embedding, FacenetModel)
             face == Row(stored.faces, face_ids[i])
             matched_person == find_matching_person(stored, embedding, user_id,
                                                    DefaultThreshold, scan)
         IN  IF face.person_id = NullId /\ matched_person # NullId
             THEN embed_loop_break(Db(stored.photos,
                                      {IF f.id = face.id
                                       THEN [f EXCEPT !.person_id = matched_person]
                                       ELSE f : f \in stored.faces},
                                      stored.persons),
                                   face_ids, i + 1, extracted, user_id, scan, auto_matched + 1)
             ELSE embed_loop_break(stored, face_ids, i + 1, extracted, user_id, scan,
                                   auto_matched)

\* Mutant: the faces of the photo being processed are no candidates.
RECURSIVE embed_loop_other_photos(_, _, _, _, _, _, _)
embed_loop_other_photos(db, face_ids, i, extracted, user_id, scan, auto_matched) ==
    IF i > Len(face_ids) THEN [db |-> db, auto_matched |-> auto_matched]
    ELSE IF extracted[Row(db.faces, face_ids[i]).box] = NoEmbedding
    THEN embed_loop_other_photos(db, face_ids, i + 1, extracted, user_id, scan, auto_matched)
    ELSE LET embedding == extracted[Row(db.faces, face_ids[i]).box]
             stored == store_embedding(db, face_ids[i], embedding, FacenetModel)
             face == Row(stored.faces, face_ids[i])
             others == Db(stored.photos,
                          {f \in stored.faces : f.photo_id # face.photo_id},
                          stored.persons)
             matched_person == find_matching_person(others, embedding, user_id,
                                                    DefaultThreshold, scan)
         IN  IF face.person_id = NullId /\ matched_person # NullId
             THEN embed_loop_other_photos(Db(stored.photos,
                                             {IF f.id = face.id
                                              THEN [f EXCEPT !.person_id = matched_person]
                                              ELSE f : f \in stored.faces},
                                             stored.persons),
                                          face_ids, i + 1, extracted, user_id, scan,
                                          auto_matched + 1)
             ELSE embed_loop_other_photos(stored, face_ids, i + 1, extracted, user_id, scan,
                                          auto_matched)

\* extract_embedding for a face row: extracted lists what the extractor
\* returns for each detected box of the image, NoEmbedding where it fails or
\* returns nothing.
extract_embedding(extracted, face) == extracted[face.box]

\* The loop of process_embeddings_for_photo over the photo's faces, from
\* position i of face_ids on.
RECURSIVE embed_loop(_, _, _, _, _, _, _)
embed_loop(db, face_ids, i, extracted, user_id, scan, auto_matched) ==
    IF i > Len(face_ids) THEN [db |-> db, auto_matched |-> auto_matched]
    ELSE IF extract_embedding(extracted, Row(db.faces, face_ids[i])) = NoEmbedding
    THEN embed_loop(db, face_ids, i + 1, extracted, user_id, scan, auto_matched)
    ELSE LET embedding == extract_embedding(extracted, Row(db.faces, face_ids[i]))
             stored == store_embedding(db, face_ids[i], embedding, FacenetModel)
             face == Row(stored.faces, face_ids[i])
             matched_person == find_matching_person(stored, embedding, user_id,
                                                    DefaultThreshold, scan)
         IN  IF face.person_id = NullId /\ matched_person # NullId
             THEN embed_loop(Db(stored.photos,
                                {IF f.id = face.id THEN [f EXCEPT !.person_id = matched_person]
                                    ELSE f : f \in stored.faces},
                                stored.persons),
                             face_ids, i + 1, extracted, user_id, scan, auto_matched + 1)
             ELSE embed_loop(stored, face_ids, i + 1, extracted, user_id, scan, auto_matched)

\* The faces of the photo in the order the query returns them (it has no
\* ORDER BY; scan is that order over all face ids).
faces_of_photo(db, photo_id, scan) ==
    LET Selected(i) == HasRow(db.faces, i) /\ Row(db.faces, i).photo_id = photo_id
    IN  SelectSeq(scan, Selected)

process_embeddings_for_photo(db, photo_id, extracted, user_id, scan) ==
    embed_loop(db, faces_of_photo(db, photo_id, scan), 1, extracted, user_id, scan, 0)

\* ------------------------------------------------------------------------
\* services/person_service.py
\* ------------------------------------------------------------------------
create_person(db, user_id, name) ==
    LET existing == first_person(db.persons, name, user_id)
    IN  IF existing # NullId
        THEN [db |-> db, id |-> existing]
        ELSE LET pid == NextId(db.persons)
             IN  [db |-> Db(db.photos, db.faces,
                            db.persons \cup {[id |-> pid, user_id |-> user_id, name |-> name]}),
                  id |-> pid]

\* Mutant: the person is deleted and the links to it are left.
delete_person_keep_links(db, person_id, user_id) ==
    IF ~\E p \in db.persons : p.id = person_id /\ p.user_id = user_id
    THEN [db |-> db, ok |-> FALSE]
    ELSE [db |-> Db(db.photos, db.faces, {p \in db.persons : p.id # person_id}),
          ok |-> TRUE]

\* Mutant: the faces of the person are deleted with it.
delete_person_with_faces(db, person_id, user_id) ==
    IF ~\E p \in db.persons : p.id = person_id /\ p.user_id = user_id
    THEN [db |-> db, ok |-> FALSE]
    ELSE [db |-> Db(db.photos,
                    {f \in db.faces : f.person_id # person_id},
                    {p \in db.persons : p.id # person_id}),
          ok |-> TRUE]

delete_person(db, person_id, user_id) ==
    IF ~\E p \in db.persons : p.id = person_id /\ p.user_id = user_id
    THEN [db |-> db, ok |-> FALSE]
    ELSE [db |-> Db(db.photos,
                    {IF f.person_id = person_id THEN [f EXCEPT !.person_id = NullId] ELSE f
                        : f \in db.faces},
                    {p \in db.persons : p.id # person_id}),
          ok |-> TRUE]

\* ------------------------------------------------------------------------
\* services/photo_service.py
\* ------------------------------------------------------------------------
create_photo(db, user_id, file_hash, now) ==
    LET photo == [id |-> NextId(db.photos), user_id |-> user_id,
                  file_hash |-> file_hash, uploaded_at |-> now]
    IN  [db |-> Db(db.photos \cup {photo}, db.faces, db.persons), id |-> photo.id]

get_photo_by_id(db, photo_id, user_id) ==
    {p \in db.photos : p.id = photo_id /\ p.user_id = user_id}

\* Mutant: the orphan pass deletes every person without a face, collected
\* or not.
cleanup_orphans_everywhere(db, person_ids) ==
    Db(db.photos, db.faces,
       {p \in db.persons : \E f \in db.faces : f.person_id = p.id})

\* Mutant: no orphan pass.
cleanup_orphans_skipped(db, person_ids) == db

\* Mutant: every collected person is deleted, faces left or not.
cleanup_orphans_all(db, person_ids) ==
    Db(db.photos, db.faces, {p \in db.persons : p.id \notin person_ids})

\* The orphan pass both deletions end with: each collected person that
\* still exists and has no face left is deleted.
cleanup_orphans(db, person_ids) ==
    Db(db.photos, db.faces,
       {p \in db.persons :
           ~(p.id \in person_ids /\ ~\E f \in db.faces : f.person_id = p.id)})

\* Mutant: the photo goes and its faces stay.
cascade_delete_photo_only(db, photo_ids) ==
    Db({p \in db.photos : p.id \notin photo_ids}, db.faces, db.persons)

\* db.session.delete(photo): the photo goes, and its faces with it
\* (cascade="all, delete-orphan").
cascade_delete(db, photo_ids) ==
    Db({p \in db.photos : p.id \notin photo_ids},
       {f \in db.faces : f.photo_id \notin photo_ids},
       db.persons)

delete_photo(db, photo_id, user_id) ==
    IF get_photo_by_id(db, photo_id, user_id) = {}
    THEN [db |-> db, ok |-> FALSE]
    ELSE LET person_ids == {f.person_id : f \in {g \in db.faces :
                                g.photo_id = photo_id /\ g.person_id # NullId}}
         IN  [db |-> cleanup_orphans(cascade_delete(db, {photo_id}), person_ids),
              ok |-> TRUE]

delete_photos_batch(db, photo_ids, user_id) ==
    LET doomed == {p.id : p \in {q \in db.photos : q.id \in photo_ids /\ q.user_id = user_id}}
        person_ids == {f.person_id : f \in {g \in db.faces :
                          g.photo_id \in doomed /\ g.person_id # NullId}}
    IN  IF doomed = {}
        THEN [db |-> db, deleted_count |-> 0]
        ELSE [db |-> cleanup_orphans(cascade_delete(db, doomed), person_ids),
              deleted_count |-> Cardinality(doomed)]

\* ------------------------------------------------------------------------
\* routes/photos.py: the database work of upload_photo
\* ------------------------------------------------------------------------
\* Mutant: a name is applied only to a face auto-matching left unlinked.
RECURSIVE name_loop_keep_auto(_, _, _, _, _)
name_loop_keep_auto(db, saved_faces, i, face_names, user_id) ==
    IF i > Len(saved_faces) THEN db
    ELSE IF strip(face_names[i]) # <<>> /\ Row(db.faces, saved_faces[i]).person_id = NullId
    THEN name_loop_keep_auto(
            assign_face_to_person(db, saved_faces[i], strip(face_names[i]), user_id).db,
            saved_faces, i + 1, face_names, user_id)
    ELSE name_loop_keep_auto(db, saved_faces, i + 1, face_names, user_id)

\* The manual-name loop of upload_photo from position i of saved_faces on.
RECURSIVE name_loop(_, _, _, _, _)
name_loop(db, saved_faces, i, face_names, user_id) ==
    IF i > Len(saved_faces) THEN db
    ELSE IF strip(face_names[i]) # <<>>
    THEN name_loop(assign_face_to_person(db, saved_faces[i], strip(face_names[i]), user_id).db,
                   saved_faces, i + 1, face_names, user_id)
    ELSE name_loop(db, saved_faces, i + 1, face_names, user_id)

\* ------------------------------------------------------------------------
\* services/photo_service.py: duplicates
\* ------------------------------------------------------------------------
\* datetime.isoformat() of uploaded_at, as the list of its fields: the
\* seconds, and the microseconds only when they are not zero.  The clock of
\* the model counts half seconds.
isoformat(t) == IF t % 2 = 0 THEN <<t \div 2>> ELSE <<t \div 2, 500000>>

\* The order of Python strings, on lists of fields of fixed width.
RECURSIVE str_lt(_, _)
str_lt(a, b) ==
    IF b = <<>> THEN FALSE
    ELSE IF a = <<>> THEN TRUE
    ELSE IF Head(a) # Head(b) THEN Head(a) < Head(b)
    ELSE str_lt(Tail(a), Tail(b))

\* Photo.to_dict(), the keys the duplicate handling reads.
to_dict(photo) == [id |-> photo.id, uploaded_at |-> isoformat(photo.uploaded_at)]

\* Mutant: the rows with the hash, of every user.
photos_with_hash_any_user(db, user_id, fhash, scan) ==
    LET Selected(i) == \E p \in db.photos : p.id = i /\ p.file_hash = fhash
    IN  [j \in 1..Len(SelectSeq(scan, Selected)) |->
            Row(db.photos, SelectSeq(scan, Selected)[j])]

\* Photo.query.filter_by(user_id=..., file_hash=...).all(): the rows in the
\* order scan gives the photo ids (the query has no ORDER BY).
photos_with_hash(db, user_id, fhash, scan) ==
    LET Selected(i) == \E p \in db.photos :
                           p.id = i /\ p.user_id = user_id /\ p.file_hash = fhash
    IN  [j \in 1..Len(SelectSeq(scan, Selected)) |->
            Row(db.photos, SelectSeq(scan, Selected)[j])]

\* The groups as the dict holds them: one entry per hash that is not null
\* and has more than one photo of the user, in the order hscan gives the
\* hashes (GROUP BY without ORDER BY).
get_all_duplicates(db, user_id, scan, hscan) ==
    LET Repeated(h) ==
            Cardinality({p \in db.photos : /\ p.user_id = user_id
                                           /\ p.file_hash # NullHash
                                           /\ p.file_hash = h}) > 1
        duplicate_hashes == SelectSeq(hscan, Repeated)
    IN  [g \in 1..Len(duplicate_hashes) |->
            LET duplicates == photos_with_hash(db, user_id, duplicate_hashes[g], scan)
            IN  [file_hash |-> duplicate_hashes[g],
                 photos |-> [j \in 1..Len(duplicates) |-> to_dict(duplicates[j])]]]

\* ------------------------------------------------------------------------
\* services/chat_actions.py
\* ------------------------------------------------------------------------
\* Mutant: the group is taken in the order the query returned it.
unsorted(group_photos) == group_photos

\* sorted(group_photos, key=uploaded_at): stable, ascending.
RECURSIVE sorted_by_uploaded_at(_)
sorted_by_uploaded_at(group_photos) ==
    IF group_photos = <<>> THEN <<>>
    ELSE LET n == Len(group_photos)
             x == group_photos[n]
             rest == sorted_by_uploaded_at(SubSeq(group_photos, 1, n - 1))
             k == Cardinality({i \in 1..(n - 1) : ~str_lt(x.uploaded_at, rest[i].uploaded_at)})
         IN  SubSeq(rest, 1, k) \o <<x>> \o SubSeq(rest, k + 1, n - 1)

\* Mutant: every member of a group is staged, the oldest too.
RECURSIVE stage_loop_keep_none(_, _, _)
stage_loop_keep_none(groups, g, to_delete) ==
    IF g > Len(groups) THEN to_delete
    ELSE stage_loop_keep_none(groups, g + 1,
                              to_delete \o [j \in 1..Len(groups[g].photos) |->
                                               groups[g].photos[j].id])

\* The loop of _action_delete_duplicates over the groups from group g on.
RECURSIVE stage_loop(_, _, _)
stage_loop(groups, g, to_delete) ==
    IF g > Len(groups) THEN to_delete
    ELSE LET sorted_photos == sorted_by_uploaded_at(groups[g].photos)
         IN  stage_loop(groups, g + 1,
                        to_delete \o [j \in 1..(Len(sorted_photos) - 1) |-> sorted_photos[j + 1].id])

Info(db) == [db |-> db, type |-> "info", requires_confirmation |-> FALSE, photo_ids |-> <<>>]
DeleteConfirmation(db, photo_ids) ==
    [db |-> db, type |-> "delete_confirmation", requires_confirmation |-> TRUE,
     photo_ids |-> photo_ids]

\* Mutant: the duplicates are deleted at once.
action_delete_duplicates_now(db, user_id, scan, hscan) ==
    LET to_delete == stage_loop(get_all_duplicates(db, user_id, scan, hscan), 1, <<>>)
    IN  DeleteConfirmation(
            delete_photos_batch(db, {to_delete[i] : i \in 1..Len(to_delete)}, user_id).db,
            to_delete)

\* _action_delete_duplicates: what it leaves in the store and what it returns.
action_delete_duplicates(db, user_id, scan, hscan) ==
    LET groups == get_all_duplicates(db, user_id, scan, hscan)
    IN  IF groups = <<>> THEN Info(db)
        ELSE DeleteConfirmation(db, stage_loop(groups, 1, <<>>))

\* _action_delete_photos for an action without filters: the first limit
\* photos of the user in the order of the query.
action_delete_photos(db, limit, user_id, scan) ==
    LET Mine(i) == \E p \in db.photos : p.id = i /\ p.user_id = user_id
        found == SelectSeq(scan, Mine)
        matched == SubSeq(found, 1, Min({limit, Len(found)}))
    IN  IF matched = <<>> THEN Info(db) ELSE DeleteConfirmation(db, matched)

\* _action_show_duplicates.
action_show_duplicates(db, user_id, scan, hscan) ==
    LET groups == get_all_duplicates(db, user_id, scan, hscan)
        RECURSIVE flat(_)
        flat(g) == IF g > Len(groups) THEN <<>>
                   ELSE [j \in 1..Len(groups[g].photos) |-> groups[g].photos[j].id] \o flat(g + 1)
    IN  IF groups = <<>> THEN [type |-> "info", photos |-> <<>>, groups |-> 0, total_duplicates |-> 0]
        ELSE [type |-> "duplicates", photos |-> flat(1), groups |-> Len(groups),
              total_duplicates |-> Len(flat(1))]

\* ------------------------------------------------------------------------
\* State machine
\* ------------------------------------------------------------------------
TheDb == Db(photos, faces, persons)

Install(db) ==
    /\ photos' = db.photos
    /\ faces' = db.faces
    /\ persons' = db.persons

\* The model's cap on ids: a request that would pass it is not taken.
Capped(db) ==
    /\ \A f \in db.faces : f.id <= MaxFaceId
    /\ \A p \in db.persons : p.id <= MaxPersonId
    /\ \A p \in db.photos : p.id <= MaxUploads

\* The orders a query without ORDER BY returns the face rows in.
Scans == {[i \in 1..MaxFaceId |-> i], [i \in 1..MaxFaceId |-> MaxFaceId + 1 - i]}

\* What an upload brings for each detected face: the extractor's result and
\* the name typed for that position of face_names_json.
Detections(names) ==
    UNION {[1..n -> [embedding : Extractions, name : names]] : n \in 0..MaxFacesPerPhoto}

Init ==
    /\ photos = {}
    /\ faces = {}
    /\ persons = {}
    /\ clock = 0
    /\ last = Last("init", {}, <<>>, 0, <<>>)
    /\ calls = {}

\* POST /api/photos/upload: create_photo, save_detected_faces,
\* process_embeddings_for_photo, then the names given for the faces.  aux
\* keeps the person links as auto-matching left them.
upload_photo(user_id, file_hash, detected, scan) ==
    /\ clock < MaxUploads
    /\ UNCHANGED calls
    /\ \E created \in {create_photo(TheDb, user_id, file_hash, clock + 1)} :
       \E saved \in {save_detected_faces(created.db, created.id, Len(detected))} :
       \E saved_faces \in {SortedSeq({f.id : f \in saved.faces \ faces})} :
       \E processed \in {IF detected = <<>> THEN [db |-> saved, auto_matched |-> 0]
                         ELSE process_embeddings_for_photo(
                                 saved, created.id,
                                 [i \in 1..Len(detected) |-> detected[i].embedding],
                                 user_id, scan)} :
       \E named \in {name_loop(processed.db, saved_faces, 1,
                               [i \in 1..Len(detected) |-> detected[i].name], user_id)} :
           /\ Capped(named)
           /\ Install(named)
           /\ clock' = clock + 1
           /\ last' = Last("upload", {created.id},
                           [i \in 1..Len(detected) |-> detected[i].name],
                           processed.auto_matched,
                           [i \in 1..Len(detected) |->
                               Row(processed.db.faces, saved_faces[i]).person_id])

\* PUT /api/faces/<face_id>/assign
assign_name(face_id, raw, user_id) ==
    /\ UNCHANGED <<clock, calls>>
    /\ IF strip(raw) = <<>>
       THEN /\ UNCHANGED <<photos, faces, persons>>
            /\ last' = Last("assign", {}, <<>>, 400, <<>>)
       ELSE \E r \in {assign_face_to_person(TheDb, face_id, strip(raw), user_id)} :
                /\ Capped(r.db)
                /\ Install(r.db)
                /\ last' = IF r.found THEN Last("assign", {face_id}, <<>>, 200, <<>>)
                           ELSE Last("assign", {}, <<>>, 404, <<>>)

\* POST /api/persons
add_person(raw, user_id) ==
    /\ UNCHANGED <<clock, calls>>
    /\ IF strip(raw) = <<>>
       THEN /\ UNCHANGED <<photos, faces, persons>>
            /\ last' = Last("add_person", {}, <<>>, 400, <<>>)
       ELSE \E r \in {create_person(TheDb, user_id, strip(raw))} :
                /\ Capped(r.db)
                /\ Install(r.db)
                /\ last' = Last("add_person", {r.id}, <<>>, 201, <<>>)

\* DELETE /api/persons/<person_id>; aux lists the faces that were linked.
remove_person(person_id, user_id) ==
    \E r \in {delete_person(TheDb, person_id, user_id)} :
        /\ Install(r.db)
        /\ UNCHANGED <<clock, calls>>
        /\ last' = IF r.ok
                   THEN Last("remove_person", {person_id}, <<>>, 200,
                             SortedSeq({f.id : f \in {g \in faces : g.person_id = person_id}}))
                   ELSE Last("remove_person", {}, <<>>, 404, <<>>)

\* The persons the faces of the photos are linked to.
linked_persons(db, photo_ids) ==
    {f.person_id : f \in {g \in db.faces : g.photo_id \in photo_ids /\ g.person_id # NullId}}

\* DELETE /api/photos/<photo_id>; aux lists the persons its faces named.
remove_photo(photo_id, user_id) ==
    \E r \in {delete_photo(TheDb, photo_id, user_id)} :
        /\ Install(r.db)
        /\ UNCHANGED <<clock, calls>>
        /\ last' = IF r.ok
                   THEN Last("remove_photo", {photo_id}, <<>>, 200,
                             SortedSeq(linked_persons(TheDb, {photo_id})))
                   ELSE Last("remove_photo", {}, <<>>, 404, <<>>)

\* DELETE /api/photos/batch-delete; ids are the photos deleted, aux the
\* persons their faces named.
batch_delete_photos(photo_ids, user_id) ==
    \E r \in {delete_photos_batch(TheDb, photo_ids, user_id)} :
    \E gone \in {{p.id : p \in photos \ r.db.photos}} :
        /\ Install(r.db)
        /\ UNCHANGED <<clock, calls>>
        /\ last' = Last("batch_delete", gone, <<>>, r.deleted_count,
                        SortedSeq(linked_persons(TheDb, gone)))

\* analyze_faces_in_image for one detected face: the extractor's result is
\* matched with the default threshold; nothing is stored.
analyze_faces_in_image(embedding, user_id, scan) ==
    /\ UNCHANGED <<photos, faces, persons, clock, calls>>
    /\ last' = Last("analyze", {}, <<>>,
                    find_matching_person(TheDb, embedding, user_id, DefaultThreshold, scan),
                    <<>>)

\* The requests of the users in U, naming persons with the names in N.
Requests(U, N) ==
    \/ \E u \in U, h \in Hashes, d \in Detections(N), s \in Scans : upload_photo(u, h, d, s)
    \/ \E f \in 1..MaxFaceId, n \in N, u \in U : assign_name(f, n, u)
    \/ \E n \in N, u \in U : add_person(n, u)
    \/ \E p \in 1..MaxPersonId, u \in U : remove_person(p, u)
    \/ \E x \in 1..MaxUploads, u \in U : remove_photo(x, u)
    \/ \E xs \in SUBSET (1..MaxUploads), u \in U : batch_delete_photos(xs, u)
    \/ \E e \in Queries, u \in U, s \in Scans : analyze_faces_in_image(e, u, s)

\* Two users who know one person name.
Next == Requests(Users, {<<>>, <<SP, "A">>})

Spec == Init /\ [][Next]_vars

\* One user who knows two person names.
NextNames == Requests({1}, RawNames)

SpecNames == Init /\ [][NextNames]_vars

\* ------------------------------------------------------------------------
\* The chat actions on duplicates
\* ------------------------------------------------------------------------
\* The orders a query without ORDER BY returns the photo rows in, and the
\* orders GROUP BY returns the hashes in H in.
PhotoScans == {[i \in 1..MaxLibrary |-> i], [i \in 1..MaxLibrary |-> MaxLibrary + 1 - i]}
HashScans(H) == {s \in [1..Cardinality(H) -> H] : \A i, j \in DOMAIN s : i # j => s[i] # s[j]}

\* execute_action for SHOW_DUPLICATES.
chat_show_duplicates(user_id, scan, hscan) ==
    /\ UNCHANGED <<photos, faces, persons, clock, calls>>
    /\ last' = Last("show_duplicates", {}, <<>>,
                    action_show_duplicates(TheDb, user_id, scan, hscan), <<user_id>>)

\* execute_action for DELETE_DUPLICATES.
chat_delete_duplicates(user_id, scan, hscan) ==
    \E r \in {action_delete_duplicates(TheDb, user_id, scan, hscan)} :
        /\ Install(r.db)
        /\ UNCHANGED <<clock, calls>>
        /\ last' = Last("delete_duplicates", {}, <<>>,
                        [type |-> r.type, requires_confirmation |-> r.requires_confirmation,
                         photo_ids |-> r.photo_ids],
                        <<user_id>>)

\* execute_action for DELETE_PHOTOS.
chat_delete_photos(limit, user_id, scan) ==
    \E r \in {action_delete_photos(TheDb, limit, user_id, scan)} :
        /\ Install(r.db)
        /\ UNCHANGED <<clock, calls>>
        /\ last' = Last("delete_photos", {}, <<>>,
                        [type |-> r.type, requires_confirmation |-> r.requires_confirmation,
                         photo_ids |-> r.photo_ids],
                        <<user_id>>)

\* The library after the uploads ups, each a photo without faces given by
\* its user and the hash of its bytes.
RECURSIVE Library(_)
Library(ups) ==
    IF ups = <<>> THEN Db({}, {}, {})
    ELSE create_photo(Library(SubSeq(ups, 1, Len(ups) - 1)),
                      ups[Len(ups)][1], ups[Len(ups)][2], Len(ups)).db

\* Libraries of up to MaxLibrary photos of two users, of two contents.
InitDup ==
    \E n \in 0..MaxLibrary : \E ups \in [1..n -> Users \X DupHashes] :
        /\ photos = Library(ups).photos
        /\ faces = {}
        /\ persons = {}
        /\ clock = n
        /\ last = Last("init", {}, <<>>, 0, <<>>)
        /\ calls = {}

NextDup ==
    \/ \E u \in Users, s \in PhotoScans, hs \in HashScans(DupHashes) :
          chat_show_duplicates(u, s, hs)
    \/ \E u \in Users, s \in PhotoScans, hs \in HashScans(DupHashes) :
          chat_delete_duplicates(u, s, hs)
    \/ \E x \in 1..MaxLibrary, u \in Users : remove_photo(x, u)
    \/ \E xs \in SUBSET (1..MaxLibrary), u \in Users : batch_delete_photos(xs, u)

SpecDup == InitDup /\ [][NextDup]_vars

\* One user who uploads photos with faces and stages deletions.
NextStage ==
    \/ \E h \in Hashes, d \in Detections({<<>>, <<SP, "A">>}), s \in Scans :
          upload_photo(1, h, d, s)
    \/ \E s \in PhotoScans, hs \in HashScans(Hashes) : chat_delete_duplicates(1, s, hs)
    \/ \E n \in 1..MaxUploads, s \in PhotoScans : chat_delete_photos(n, 1, s)
    \/ \E xs \in SUBSET (1..MaxUploads) : batch_delete_photos(xs, 1)

SpecStage == Init /\ [][NextStage]_vars

\* ------------------------------------------------------------------------
\* Find-or-create, read and write apart (requests served by threads)
\* ------------------------------------------------------------------------
Procs == {1, 2}
Idle == [pc |-> "idle"]

\* Person(name=..., user_id=...); db.session.add(person).
insert_person(db, person_name, user_id) ==
    [db |-> Db(db.photos, db.faces,
               db.persons \cup {[id |-> NextId(db.persons), user_id |-> user_id,
                                 name |-> person_name]}),
     id |-> NextId(db.persons)]

\* Mutant: the write looks the person up again.
find_or_create_write_recheck(db, existing, person_name, user_id) ==
    IF first_person(db.persons, person_name, user_id) # NullId
    THEN [db |-> db, id |-> first_person(db.persons, person_name, user_id)]
    ELSE insert_person(db, person_name, user_id)

\* What a find-or-create writes, given the person its query found.
find_or_create_write(db, existing, person_name, user_id) ==
    IF existing # NullId THEN [db |-> db, id |-> existing]
    ELSE insert_person(db, person_name, user_id)

\* face.person_id = person.id
link_face(db, face_id, person_id) ==
    Db(db.photos,
       {IF f.id = face_id THEN [f EXCEPT !.person_id = person_id] ELSE f : f \in db.faces},
       db.persons)

Answer(call, res) == [call EXCEPT !.pc = "done", !.res = res]

\* PUT /api/faces/<face_id>/assign up to the two queries of
\* assign_face_to_person.
assign_name_read(proc, face_id, raw, user_id) ==
    /\ calls[proc].pc = "idle"
    /\ UNCHANGED <<photos, faces, persons, clock, last>>
    /\ \E call \in {[pc |-> "read", op |-> "assign", face_id |-> face_id,
                     person_name |-> strip(raw), user_id |-> user_id,
                     existing |-> first_person(persons, strip(raw), user_id), res |-> 0]} :
          calls' = [calls EXCEPT ![proc] =
                        IF strip(raw) = <<>> THEN Answer(call, 400)
                        ELSE IF ~HasRow(faces, face_id) THEN Answer(call, 404)
                        ELSE call]

\* The rest of assign_face_to_person: the person is inserted if the query
\* found none, the face is linked, the session is committed.
assign_name_write(proc) ==
    /\ calls[proc].pc = "read"
    /\ calls[proc].op = "assign"
    /\ \E call \in {calls[proc]} :
       \E person \in {find_or_create_write(TheDb, call.existing, call.person_name,
                                           call.user_id)} :
          /\ Install(link_face(person.db, call.face_id, person.id))
          /\ calls' = [calls EXCEPT ![proc] = Answer(call, 200)]
          /\ last' = Last("assign", {call.face_id}, <<>>, 200, <<>>)
          /\ UNCHANGED clock

\* POST /api/persons up to the query of create_person.
add_person_read(proc, raw, user_id) ==
    /\ calls[proc].pc = "idle"
    /\ UNCHANGED <<photos, faces, persons, clock, last>>
    /\ \E call \in {[pc |-> "read", op |-> "add_person", face_id |-> NullId,
                     person_name |-> strip(raw), user_id |-> user_id,
                     existing |-> first_person(persons, strip(raw), user_id), res |-> 0]} :
          calls' = [calls EXCEPT ![proc] =
                        IF strip(raw) = <<>> THEN Answer(call, 400) ELSE call]

\* The rest of create_person.
add_person_write(proc) ==
    /\ calls[proc].pc = "read"
    /\ calls[proc].op = "add_person"
    /\ \E call \in {calls[proc]} :
       \E person \in {find_or_create_write(TheDb, call.existing, call.person_name,
                                           call.user_id)} :
          /\ Install(person.db)
          /\ calls' = [calls EXCEPT ![proc] = Answer(call, 201)]
          /\ last' = Last("add_person", {person.id}, <<>>, 201, <<>>)
          /\ UNCHANGED clock

\* A photo of user 1 with two faces, no embedding stored and no name given,
\* and two requests about to be served.
InitRace ==
    /\ \E db \in {save_detected_faces(create_photo(Db({}, {}, {}), 1, "h1", 1).db, 1, 2)} :
          /\ photos = db.photos
          /\ faces = db.faces
          /\ persons = db.persons
    /\ clock = 1
    /\ last = Last("upload", {1}, <<<<>>, <<>>>>, 0, <<NullId, NullId>>)
    /\ calls = [proc \in Procs |-> Idle]

NextRace ==
    \/ \E proc \in Procs, f \in 1..MaxFaceId, n \in {<<>>, <<SP, "A">>}, u \in Users :
          assign_name_read(proc, f, n, u)
    \/ \E proc \in Procs : assign_name_write(proc)
    \/ \E proc \in Procs, n \in {<<>>, <<SP, "A">>}, u \in Users : add_person_read(proc, n, u)
    \/ \E proc \in Procs : add_person_write(proc)

SpecRace == InitRace /\ [][NextRace]_vars

\* One user whose extractor may return the zero vector.
ZeroExtractions == {<<0, 0>>, <<1, 0>>}
ZeroDetections ==
    UNION {[1..n -> [embedding : ZeroExtractions, name : RawNames]] : n \in 0..MaxFacesPerPhoto}

NextZero ==
    \/ \E h \in Hashes, d \in ZeroDetections, s \in Scans : upload_photo(1, h, d, s)
    \/ \E f \in 1..MaxFaceId, n \in RawNames : assign_name(f, n, 1)
    \/ \E p \in 1..MaxPersonId : remove_person(p, 1)
    \/ \E e \in Queries, s \in Scans : analyze_faces_in_image(e, 1, s)

SpecZero == Init /\ [][NextZero]_vars

\* ------------------------------------------------------------------------
\* An upload in two steps: the rows are saved, then the faces are processed
\* (save_detected_faces commits before process_embeddings_for_photo runs, so
\* another request can name a saved face in between)
\* ------------------------------------------------------------------------
EmbedExtractions == {NoEmbedding, <<1, 0>>, <<3, 4>>, <<0, 1>>}
EmbedDetections ==
    UNION {[1..n -> [embedding : EmbedExtractions, name : {<<>>}]] : n \in 1..MaxFacesPerPhoto}
EmbedFaceIds == 1..(1 + MaxFacesPerPhoto * (MaxUploads - 1))
EmbedScans == {[i \in EmbedFaceIds |-> i],
               [i \in EmbedFaceIds |-> Max(EmbedFaceIds) + 1 - i]}

\* upload_photo up to the commit of save_detected_faces.
upload_save(proc, user_id, file_hash, detected) ==
    /\ calls[proc].pc = "idle"
    /\ clock < MaxUploads
    /\ \E created \in {create_photo(TheDb, user_id, file_hash, clock + 1)} :
       \E saved \in {save_detected_faces(created.db, created.id, Len(detected))} :
          /\ Install(saved)
          /\ clock' = clock + 1
          /\ calls' = [calls EXCEPT ![proc] =
                          [pc |-> "saved", op |-> "upload", photo_id |-> created.id,
                           detected |-> detected, user_id |-> user_id,
                           saved_faces |-> SortedSeq({f.id : f \in saved.faces \ faces}),
                           res |-> 0]]
          /\ UNCHANGED last

\* The rest of upload_photo: process_embeddings_for_photo, then the names
\* given for the faces.  aux keeps the face rows as they were before the
\* processing and as it left them, the order the faces were taken in and
\* what the extractor returned.
upload_process(proc, scan) ==
    /\ calls[proc].pc = "saved"
    /\ \E call \in {calls[proc]} :
       \E extracted \in {[i \in 1..Len(call.detected) |-> call.detected[i].embedding]} :
       \E processed \in {process_embeddings_for_photo(TheDb, call.photo_id, extracted,
                                                      call.user_id, scan)} :
       \E named \in {name_loop(processed.db, call.saved_faces, 1,
                               [i \in 1..Len(call.detected) |-> call.detected[i].name],
                               call.user_id)} :
          /\ Install(named)
          /\ calls' = [calls EXCEPT ![proc] = Answer(call, 201)]
          /\ last' = Last("upload_process", {call.photo_id},
                          [i \in 1..Len(call.detected) |-> call.detected[i].name],
                          processed.auto_matched,
                          [before |-> faces,
                           order |-> faces_of_photo(TheDb, call.photo_id, scan),
                           extracted |-> extracted,
                           after |-> processed.db.faces,
                           status |-> 201])
          /\ UNCHANGED clock

\* The library after user 1 uploaded one photo with one face, for which the
\* extractor returned e, and named it "A".
Known(e) ==
    LET saved == save_detected_faces(create_photo(Db({}, {}, {}), 1, "h1", 1).db, 1, 1)
        processed == process_embeddings_for_photo(saved, 1, <<e>>, 1, <<1>>)
    IN  name_loop(processed.db, <<1>>, 1, <<<<"A">>>>, 1)

InitEmbed ==
    /\ \E e \in {<<1, 0>>, <<0, 1>>} : \E db \in {Known(e)} :
          /\ photos = db.photos
          /\ faces = db.faces
          /\ persons = db.persons
    /\ clock = 1
    /\ last = Last("upload", {1}, <<<<"A">>>>, 0, <<NullId>>)
    /\ calls = [proc \in Procs |-> Idle]

NextEmbed ==
    \/ \E proc \in Procs, h \in Hashes, d \in EmbedDetections : upload_save(proc, 1, h, d)
    \/ \E proc \in Procs, s \in EmbedScans : upload_process(proc, s)
    \/ \E proc \in Procs, f \in EmbedFaceIds, n \in {<<"A">>, <<"B">>} :
          assign_name_read(proc, f, n, 1)
    \/ \E proc \in Procs : assign_name_write(proc)

SpecEmbed == InitEmbed /\ [][NextEmbed]_vars

\* ------------------------------------------------------------------------
\* A photo deletion in steps (delete_photo and delete_photos_batch commit the
\* deletion, then look at each collected person, then commit again), next to
\* a request that names a face
\* ------------------------------------------------------------------------
MaxOrphanPhotos == 3

\* Mutant: the persons to look at are listed once per doomed face.
person_id_list(db, photo_ids) ==
    [pid \in linked_persons(db, photo_ids) |->
        Cardinality({f \in db.faces : f.photo_id \in photo_ids /\ f.person_id = pid})]

\* person_ids, a Python set: how often each collected person is to be
\* looked at.
person_id_set(db, photo_ids) == [pid \in linked_persons(db, photo_ids) |-> 1]

\* db.session.delete(person) for the persons found orphaned, and the commit:
\* the rows go, and the unit of work nulls the link of every face it still
\* finds under Person.faces (the relationship has no delete cascade).
delete_orphans(db, orphans) ==
    Db(db.photos,
       {IF f.person_id \in orphans THEN [f EXCEPT !.person_id = NullId] ELSE f : f \in db.faces},
       {p \in db.persons : p.id \notin orphans})

\* delete_photo / delete_photos_batch up to the collection of person_ids.
delete_collect(proc, op, photo_ids, user_id) ==
    /\ calls[proc].pc = "idle"
    /\ UNCHANGED <<photos, faces, persons, clock, last>>
    /\ \E doomed \in {{p.id : p \in {q \in photos : q.id \in photo_ids /\ q.user_id = user_id}}} :
       \E call \in {[pc |-> "collected", op |-> op, photo_ids |-> doomed, user_id |-> user_id,
                     person_ids |-> linked_persons(TheDb, doomed),
                     todo |-> person_id_set(TheDb, doomed),
                     linked_faces |-> Cardinality({f \in faces : f.photo_id \in doomed
                                                                /\ f.person_id # NullId}),
                     checked |-> <<>>, orphans |-> {}, res |-> 0]} :
          calls' = [calls EXCEPT ![proc] =
                        IF doomed # {} THEN call
                        ELSE Answer(call, IF op = "remove_photo" THEN 404 ELSE 200)]

\* db.session.delete(photo) for the doomed photos and the commit; the
\* request is answered here when no person was collected.
delete_commit(proc) ==
    /\ calls[proc].pc = "collected"
    /\ \E call \in {calls[proc]} :
          /\ Install(cascade_delete(TheDb, call.photo_ids))
          /\ calls' = [calls EXCEPT ![proc] =
                          IF call.person_ids = {} THEN Answer(call, 200)
                          ELSE [call EXCEPT !.pc = "deleted"]]
          /\ last' = IF call.person_ids = {} THEN Last(call.op, call.photo_ids, <<>>, 200, <<>>)
                     ELSE last
          /\ UNCHANGED clock

\* One turn of the cleanup loop: Person.query.get(pid) and
\* person.faces.count() == 0.
orphan_check(proc, pid) ==
    /\ calls[proc].pc = "deleted"
    /\ pid \in DOMAIN calls[proc].todo
    /\ calls[proc].todo[pid] > 0
    /\ UNCHANGED <<photos, faces, persons, clock, last>>
    /\ \E call \in {calls[proc]} :
          calls' = [calls EXCEPT ![proc] =
                        [call EXCEPT !.todo[pid] = @ - 1,
                                     !.checked = Append(@, pid),
                                     !.orphans = IF HasRow(persons, pid)
                                                    /\ ~\E f \in faces : f.person_id = pid
                                                 THEN @ \cup {pid} ELSE @]]

\* The commit after the loop.
orphan_commit(proc) ==
    /\ calls[proc].pc = "deleted"
    /\ \A pid \in DOMAIN calls[proc].todo : calls[proc].todo[pid] = 0
    /\ \E call \in {calls[proc]} :
          /\ Install(delete_orphans(TheDb, call.orphans))
          /\ calls' = [calls EXCEPT ![proc] = Answer(call, 200)]
          /\ last' = Last(call.op, call.photo_ids, <<>>, 200, SortedSeq(call.person_ids))
          /\ UNCHANGED clock

\* The library after one user's uploads of photos with one face each, named
\* as names says (<<>> for a face left unnamed).
RECURSIVE NamedLibrary(_)
NamedLibrary(names) ==
    IF names = <<>> THEN Db({}, {}, {})
    ELSE LET n == Len(names)
             created == create_photo(NamedLibrary(SubSeq(names, 1, n - 1)), 1, "h1", n)
             saved == save_detected_faces(created.db, created.id, 1)
         IN  name_loop(saved, <<NextId(created.db.faces)>>, 1, <<names[n]>>, 1)

InitOrphan ==
    /\ \E names \in [1..MaxOrphanPhotos -> {<<>>, <<"A">>, <<"B">>}] :
       \E db \in {NamedLibrary(names)} :
          /\ photos = db.photos
          /\ faces = db.faces
          /\ persons = db.persons
    /\ clock = MaxOrphanPhotos
    /\ last = Last("init", {}, <<>>, 0, <<>>)
    /\ calls = [proc \in Procs |-> Idle]

NextOrphan ==
    \/ \E proc \in Procs, x \in 1..MaxOrphanPhotos :
          delete_collect(proc, "remove_photo", {x}, 1)
    \/ \E proc \in Procs, xs \in SUBSET (1..MaxOrphanPhotos) :
          delete_collect(proc, "batch_delete", xs, 1)
    \/ \E proc \in Procs : delete_commit(proc)
    \/ \E proc \in Procs, pid \in 1..MaxOrphanPhotos : orphan_check(proc, pid)
    \/ \E proc \in Procs : orphan_commit(proc)
    \/ \E proc \in Procs, f \in 1..MaxOrphanPhotos : assign_name_read(proc, f, <<"A">>, 1)
    \/ \E proc \in Procs : assign_name_write(proc)

SpecOrphan == InitOrphan /\ [][NextOrphan]_vars

\* ------------------------------------------------------------------------
\* The purge of duplicates: staged by the chat action, then confirmed by the
\* client with a batch deletion of the staged ids
\* ------------------------------------------------------------------------
\* execute_action for DELETE_DUPLICATES; the client keeps the confirmation
\* it is shown (calls), with the photos there were when it was staged.
stage_purge(user_id, scan, hscan) ==
    \E r \in {action_delete_duplicates(TheDb, user_id, scan, hscan)} :
        /\ Install(r.db)
        /\ UNCHANGED clock
        /\ calls' = IF r.requires_confirmation
                    THEN {[user_id |-> user_id, photo_ids |-> r.photo_ids, seen |-> photos]}
                    ELSE {}
        /\ last' = Last("delete_duplicates", {}, <<>>,
                        [type |-> r.type, requires_confirmation |-> r.requires_confirmation,
                         photo_ids |-> r.photo_ids],
                        <<user_id>>)

\* DELETE /api/photos/batch-delete with the ids of the confirmation.  aux
\* keeps whose purge it was, what was staged, and the photos there were when
\* it was staged and when it was confirmed.
confirm_purge ==
    \E dialog \in calls :
    \E r \in {delete_photos_batch(TheDb,
                                  {dialog.photo_ids[i] : i \in 1..Len(dialog.photo_ids)},
                                  dialog.user_id)} :
        /\ Install(r.db)
        /\ UNCHANGED clock
        /\ calls' = {}
        /\ last' = Last("purge", {p.id : p \in photos \ r.db.photos}, <<>>, r.deleted_count,
                        [user_id |-> dialog.user_id, staged |-> dialog.photo_ids,
                         seen |-> dialog.seen, before |-> photos])

NextPurge ==
    \/ \E u \in Users, s \in PhotoScans, hs \in HashScans(DupHashes) : stage_purge(u, s, hs)
    \/ confirm_purge
    \/ \E x \in 1..MaxLibrary, u \in Users : remove_photo(x, u)

SpecPurge == InitDup /\ [][NextPurge]_vars

\* ------------------------------------------------------------------------
\* Properties
\* ------------------------------------------------------------------------
AllUsers == Users
PersonIds == {p.id : p \in persons}
FacesOf(fs, person_id) == {f \in fs : f.person_id = person_id}
PhotoOwner(ph, face) == (CHOOSE p \in ph : p.id = face.photo_id).user_id

\* What belongs to a user: the photos, the faces in them, the persons.
Scope(db, user_id) ==
    [photos |-> {p \in db.photos : p.user_id = user_id},
     faces |-> {f \in db.faces : \E p \in db.photos : p.id = f.photo_id /\ p.user_id = user_id},
     persons |-> {p \in db.persons : p.user_id = user_id}]

\* C1: after every request, every person that exists is referenced by at
\* least one face.
NoPersonWithoutFace ==
    \A p \in persons : FacesOf(faces, p.id) # {}

\* C2: every face with a person link is linked to a person of the user who
\* owns the face's photo.
LinkStaysInScope ==
    \A f \in faces : \A p \in persons :
        f.person_id = p.id => p.user_id = PhotoOwner(photos, f)

\* C3: assigning a name to a face in another user's photo is answered with
\* not found and changes no face and no person.
ForeignFaceNotFound ==
    [][\A f \in faces, n \in RawNames, u \in AllUsers :
          (strip(n) # <<>> /\ PhotoOwner(photos, f) # u /\ assign_name(f.id, n, u))
              => (last'.res = 404 /\ UNCHANGED <<faces, persons>>)]_vars

\* C4: a request of one user (assign, delete person, delete photo, batch
\* delete) leaves what belongs to every other user as it was.
ActsAs(u) ==
    \/ \E f \in 1..MaxFaceId, n \in RawNames : assign_name(f, n, u)
    \/ \E p \in 1..MaxPersonId : remove_person(p, u)
    \/ \E x \in 1..MaxUploads : remove_photo(x, u)
    \/ \E xs \in SUBSET (1..MaxUploads) : batch_delete_photos(xs, u)

OtherScopesUntouched ==
    [][\A u \in AllUsers : ActsAs(u) =>
          \A v \in AllUsers \ {u} :
              Scope(Db(photos', faces', persons'), v) = Scope(TheDb, v)]_vars
\* The face of photo x at position i of the detector's list.
FaceAt(fs, x, i) == CHOOSE f \in fs : f.photo_id = x /\ f.box = i
PhotoUser(ph, x) == (CHOOSE p \in ph : p.id = x).user_id

\* Whether face f ends an upload linked to the one person of user u named nm.
LinkedToNamed(f, nm, u) ==
    /\ \E p \in persons : p.id = f.person_id /\ p.name = nm /\ p.user_id = u
    /\ \A p \in persons : (p.name = nm /\ p.user_id = u) => p.id = f.person_id

\* C5 (as amended): after an upload, every face position that came with a
\* non-blank name is linked to the person of the uploading user whose name
\* is the given name with the blanks around it stripped, whatever person
\* auto-matching linked it to; a position without a name keeps the link
\* auto-matching gave it.
ManualNameOverridesAutoMatch ==
    last.op = "upload" =>
        \A x \in last.ids : \A i \in 1..Len(last.names) :
            IF strip(last.names[i]) # <<>>
            THEN LinkedToNamed(FaceAt(faces, x, i), strip(last.names[i]), PhotoUser(photos, x))
            ELSE FaceAt(faces, x, i).person_id = last.aux[i]

\* C5 as first stated: the person linked has exactly the name supplied.
ManualNameLinksExactName ==
    last.op = "upload" =>
        \A x \in last.ids : \A i \in 1..Len(last.names) :
            strip(last.names[i]) # <<>> =>
                LinkedToNamed(FaceAt(faces, x, i), last.names[i], PhotoUser(photos, x))

\* An upload whose named face had been auto-matched to another person.
ManualOverrideHappened ==
    /\ last.op = "upload"
    /\ \E x \in last.ids : \E i \in 1..Len(last.names) :
          /\ strip(last.names[i]) # <<>>
          /\ last.aux[i] # NullId
          /\ last.aux[i] # FaceAt(faces, x, i).person_id

\* The faces find_matching_person compares a query of user_id with.
Candidates(db, user_id) ==
    {f \in db.faces : /\ f.embedding # NoEmbedding
                      /\ f.person_id # NullId
                      /\ PhotoOwner(db.photos, f) = user_id}

\* C6: for every query, user, threshold and order of the stored faces, a
\* person find_matching_person returns is linked from a candidate whose
\* similarity to the query is at least the threshold, and it returns none
\* when no candidate reaches the threshold.
MatchReachesThreshold ==
    \A q \in Queries, u \in AllUsers, t \in Thresholds, s \in Scans :
        LET r == find_matching_person(TheDb, q, u, t, s)
            sims == {compute_similarity(q, f.embedding) : f \in Candidates(TheDb, u)}
        IN  /\ r # NullId =>
                \E f \in Candidates(TheDb, u) :
                    f.person_id = r /\ compute_similarity(q, f.embedding) >= t
            /\ (\A m \in sims : m < t) => r = NullId

\* An analysis matched a person although another query or user would not.
MatchFound ==
    /\ last.op = "analyze"
    /\ last.res # NullId
    /\ \E q \in Queries, u \in AllUsers :
          /\ Candidates(TheDb, u) # {}
          /\ find_matching_person(TheDb, q, u, DefaultThreshold, [i \in 1..MaxFaceId |-> i])
                = NullId

\* C7: find_matching_person returns the person of the first candidate, in
\* the order the faces are returned, whose similarity is the largest of all
\* candidates, whenever that largest similarity is at least the threshold.
FirstBestCandidateWins ==
    \A q \in Queries, u \in AllUsers, t \in Thresholds, s \in Scans :
        LET IsCandidate(i) == \E f \in Candidates(TheDb, u) : f.id = i
            order == SelectSeq(s, IsCandidate)
            sim(i) == compute_similarity(q, Row(faces, order[i]).embedding)
            best == Max({sim(i) : i \in 1..Len(order)})
            first == Min({i \in 1..Len(order) : sim(i) = best})
        IN  (order # <<>> /\ best >= t) =>
                find_matching_person(TheDb, q, u, t, s) = Row(faces, order[first]).person_id

DeleteOps == {"remove_photo", "batch_delete"}

\* C8: when a photo is deleted (alone or in a batch), a person referenced
\* only by faces of that photo no longer exists afterwards.
SoleReferencedPersonDeleted ==
    [][(last'.op \in DeleteOps /\ last'.ids # {}) =>
          \A p \in persons : \A x \in last'.ids :
              (/\ FacesOf(faces, p.id) # {}
               /\ \A f \in FacesOf(faces, p.id) : f.photo_id = x)
                  => p.id \notin {q.id : q \in persons'}]_vars

\* A photo deletion whose orphan pass deleted a person.
OrphanDeleted ==
    /\ last.op \in DeleteOps
    /\ \E i \in 1..Len(last.aux) : last.aux[i] \notin PersonIds

\* C9: when some but not all of the photos whose faces reference a person
\* are deleted, the person still exists and is referenced by the faces it
\* had less those of the deleted photos, at least one.
SharedPersonKept ==
    [][(last'.op \in DeleteOps /\ last'.ids # {}) =>
          \A p \in persons :
              LET refs == FacesOf(faces, p.id)
                  gone == {f \in refs : f.photo_id \in last'.ids}
              IN  (gone # {} /\ refs \ gone # {}) =>
                      /\ p \in persons'
                      /\ Cardinality(FacesOf(faces', p.id))
                             = Cardinality(refs) - Cardinality(gone)
                      /\ Cardinality(FacesOf(faces', p.id)) >= 1]_vars

\* A photo deletion after which a person its faces named is still referenced.
SharedPersonStillReferenced ==
    /\ last.op \in DeleteOps
    /\ \E i \in 1..Len(last.aux) :
          last.aux[i] \in PersonIds /\ FacesOf(faces, last.aux[i]) # {}

\* C10: a successful delete_person removes the person, keeps every face,
\* sets the person link of the faces that referenced it to null and changes
\* nothing else of any face.
DeletePersonOnlyUnlinks ==
    [][(last'.op = "remove_person" /\ last'.res = 200) =>
          \A pid \in last'.ids :
              /\ pid \notin {q.id : q \in persons'}
              /\ Cardinality(faces') = Cardinality(faces)
              /\ \A f \in faces : \E g \in faces' :
                    /\ g.id = f.id
                    /\ g.photo_id = f.photo_id
                    /\ g.box = f.box
                    /\ g.confidence = f.confidence
                    /\ g.embedding = f.embedding
                    /\ g.embedding_model = f.embedding_model
                    /\ g.person_id = IF f.person_id = pid THEN NullId ELSE f.person_id]_vars

\* A person was deleted that a face with a stored embedding referenced,
\* while another face did not reference it.
PersonWithFacesDeleted ==
    /\ last.op = "remove_person"
    /\ last.res = 200
    /\ \E i \in 1..Len(last.aux) : Row(faces, last.aux[i]).embedding # NoEmbedding
    /\ \E f \in faces : \A i \in 1..Len(last.aux) : f.id # last.aux[i]

\* C11: every face belongs to exactly one existing photo, and after a photo
\* deletion (alone or in a batch) no face of a deleted photo remains.
FaceInOnePhoto ==
    /\ \A f \in faces : Cardinality({p \in photos : p.id = f.photo_id}) = 1
    /\ last.op \in DeleteOps =>
          \A x \in last.ids : ~\E f \in faces : f.photo_id = x

\* A photo whose faces named a person was deleted while other faces remain.
PhotoWithFacesDeleted ==
    /\ last.op \in DeleteOps
    /\ last.ids # {}
    /\ Len(last.aux) > 0
    /\ faces # {}

\* The names find-or-create is called with: stripped and not blank.
PersonNames == {strip(n) : n \in RawNames} \ {<<>>}
NamedBy(ps, u, n) == {p \in ps : p.user_id = u /\ p.name = n}

\* C17: with requests running one at a time, at most one person exists per
\* (user, name); find-or-create by name (create_person, assign_face_to_person)
\* yields the existing person of the user with exactly that name when there is
\* one and adds one person otherwise.
OnePersonPerUserAndName ==
    /\ \A p, q \in persons : (p.user_id = q.user_id /\ p.name = q.name) => p.id = q.id
    /\ \A u \in AllUsers, n \in PersonNames :
          LET had == NamedBy(persons, u, n)
              made == create_person(TheDb, u, n)
          IN  /\ had # {} => (made.db = TheDb /\ made.id \in {p.id : p \in had})
              /\ had = {} =>
                    /\ made.id \notin PersonIds
                    /\ made.db.persons
                          = persons \cup {[id |-> made.id, user_id |-> u, name |-> n]}
              /\ \A f \in faces :
                    LET linked == assign_face_to_person(TheDb, f.id, n, u).db
                    IN  /\ Row(linked.faces, f.id).person_id
                              \in {p.id : p \in NamedBy(linked.persons, u, n)}
                        /\ had # {} => linked.persons = persons
                        /\ had = {} =>
                              Cardinality(linked.persons) = Cardinality(persons) + 1

\* A find-or-create has left two users with a person of the same name each.
SameNameTwoUsers ==
    /\ last.op \in {"assign", "add_person"}
    /\ last.ids # {}
    /\ \E p, q \in persons : p.name = q.name /\ p.user_id # q.user_id

\* C18: every face with a stored embedding carries a model tag that is
\* neither null nor empty.
EmbeddingCarriesModelTag ==
    \A f \in faces : f.embedding # NoEmbedding => f.embedding_model \notin {NullModel, ""}

\* An upload stored an embedding, and another face has none.
EmbeddingStored ==
    /\ last.op = "upload"
    /\ \E f \in faces : f.embedding # NoEmbedding /\ f.embedding_model = FacenetModel
    /\ \E f \in faces : f.embedding = NoEmbedding

\* C20: the faces find_matching_person compares a query of a user with are
\* exactly the faces with a stored embedding, a person link and a photo of
\* that user; the result is what it would be were all other faces absent.
OnlyCandidatesCompared ==
    \A u \in AllUsers, s \in Scans :
        /\ {f \in faces : /\ \E i \in 1..Len(get_all_embeddings_for_user(TheDb, u, s)) :
                                get_all_embeddings_for_user(TheDb, u, s)[i] = f.id
                          /\ f.person_id # NullId}
              = Candidates(TheDb, u)
        /\ \A q \in Queries, t \in Thresholds :
              find_matching_person(TheDb, q, u, t, s)
                  = find_matching_person(Db(photos, Candidates(TheDb, u), persons), q, u, t, s)

\* An analysis matched a person while a face with a stored embedding that no
\* person is linked to, or one in another user's photo, was in the store.
MatchedAmongOtherFaces ==
    /\ last.op = "analyze"
    /\ last.res # NullId
    /\ \E u \in AllUsers :
          /\ Candidates(TheDb, u) # {}
          /\ \E f \in faces : f.embedding # NoEmbedding /\ f \notin Candidates(TheDb, u)

\* The photos of user u whose content hash is h, and the hashes that more
\* than one photo of u has.
SameContent(u, h) == {p \in photos : p.user_id = u /\ p.file_hash = h}
SharedHashes(u) == {h \in DupHashes : h # NullHash /\ Cardinality(SameContent(u, h)) >= 2}
Oldest(ps) == CHOOSE p \in ps : \A q \in ps : p.uploaded_at <= q.uploaded_at

\* C12: get_all_duplicates returns one group per hash that is not null and
\* that at least two photos of the user have; a group lists all the photos
\* of the user with that hash, each once, and no others, so it has at least
\* two members.
DuplicateGroupsExact ==
    \A u \in AllUsers, s \in PhotoScans, hs \in HashScans(DupHashes) :
        LET r == get_all_duplicates(TheDb, u, s, hs)
            ids(g) == {r[g].photos[j].id : j \in 1..Len(r[g].photos)}
        IN  /\ \A g, k \in DOMAIN r : r[g].file_hash = r[k].file_hash => g = k
            /\ {r[g].file_hash : g \in DOMAIN r} = SharedHashes(u)
            /\ \A g \in DOMAIN r :
                  /\ ids(g) = {p.id : p \in SameContent(u, r[g].file_hash)}
                  /\ Len(r[g].photos) = Cardinality(ids(g))
                  /\ Len(r[g].photos) >= 2

\* The duplicates shown were two groups, of two and of three photos.
TwoGroupsShown ==
    /\ last.op = "show_duplicates"
    /\ last.res.groups = 2
    /\ last.res.total_duplicates = 5

\* C13: within every group get_all_duplicates returns, the photos are in
\* ascending order of upload time.
DuplicatesInUploadOrder ==
    \A u \in AllUsers, s \in PhotoScans, hs \in HashScans(DupHashes) :
        LET r == get_all_duplicates(TheDb, u, s, hs)
        IN  \A g \in DOMAIN r : \A j, k \in 1..Len(r[g].photos) :
                j < k => Row(photos, r[g].photos[j].id).uploaded_at
                            < Row(photos, r[g].photos[k].id).uploaded_at

\* C14: _action_delete_duplicates stages, for every group, all members but
\* the one uploaded first: no id twice, never the oldest of a group, every
\* other member, in all the members less one per group; a list that is not
\* empty is returned as requiring confirmation.
StagedAllButOldest ==
    \A u \in AllUsers, s \in PhotoScans, hs \in HashScans(DupHashes) :
        LET r == action_delete_duplicates(TheDb, u, s, hs)
            staged == {r.photo_ids[i] : i \in 1..Len(r.photo_ids)}
            members == UNION {SameContent(u, h) : h \in SharedHashes(u)}
        IN  /\ Len(r.photo_ids) = Cardinality(staged)
            /\ \A h \in SharedHashes(u) : Oldest(SameContent(u, h)).id \notin staged
            /\ staged = {p.id : p \in members}
                            \ {Oldest(SameContent(u, h)).id : h \in SharedHashes(u)}
            /\ Len(r.photo_ids) = Cardinality(members) - Cardinality(SharedHashes(u))
            /\ r.photo_ids # <<>> => r.requires_confirmation

\* A purge was staged for two groups, one photo of one and two of the other.
ThreeStaged ==
    /\ last.op = "delete_duplicates"
    /\ Len(last.res.photo_ids) = 3
    /\ \E u \in AllUsers : Cardinality(SharedHashes(u)) = 2 /\ last.aux = <<u>>

StagingOps == {"delete_duplicates", "delete_photos"}

\* C15: the staging actions (DELETE_DUPLICATES, DELETE_PHOTOS) return a
\* list flagged as requiring confirmation and leave every photo, face and
\* person as it was; a photo goes only in a delete_photo or
\* delete_photos_batch request.
StagingOnlyComputes ==
    [][/\ last'.op \in StagingOps =>
              /\ UNCHANGED <<photos, faces, persons>>
              /\ last'.res.photo_ids # <<>> => last'.res.requires_confirmation
       /\ photos \ photos' # {} => last'.op \in DeleteOps]_vars

\* A purge was staged in a library with faces and persons, and the staged
\* photos are still there.
PurgeStagedNotDone ==
    /\ last.op = "delete_duplicates"
    /\ last.res.photo_ids # <<>>
    /\ \A i \in 1..Len(last.res.photo_ids) : HasRow(photos, last.res.photo_ids[i])
    /\ faces # {}
    /\ persons # {}

\* The requests that have written, two of them for the same user and name.
Wrote(proc) == calls[proc].pc = "done" /\ calls[proc].res \in {200, 201}
SameTarget(p, q) ==
    /\ calls[p].user_id = calls[q].user_id
    /\ calls[p].person_name = calls[q].person_name

\* C16: when two requests name the same person of the same user and both
\* have looked it up and found none before either wrote (each read found
\* none), both insert a person, and two person rows with that user and name
\* persist; when one read after the other had written, there is one row.
RacingCreatesTwoRows ==
    \A p, q \in Procs :
        (p # q /\ Wrote(p) /\ Wrote(q) /\ SameTarget(p, q)) =>
            Cardinality(NamedBy(persons, calls[p].user_id, calls[p].person_name))
                = IF calls[p].existing = NullId /\ calls[q].existing = NullId THEN 2 ELSE 1

\* Both requests are answered and two persons of one user have one name.
DuplicatePersonRows ==
    /\ \A proc \in Procs : Wrote(proc)
    /\ \E p, q \in persons : p.id # q.id /\ p.user_id = q.user_id /\ p.name = q.name

ZeroNorm(vec) == dot(vec, vec) = 0
Vectors == Queries \cup ZeroExtractions \cup (Extractions \ {NoEmbedding})

Processed == {f \in last.aux.after : f.photo_id \in last.ids}
Before(f) == Row(last.aux.before, f.id)
Extracted(f) == last.aux.extracted[f.box]
Turn(f) == CHOOSE i \in 1..Len(last.aux.order) : last.aux.order[i] = f.id
AutoMatched(f) == Before(f).person_id = NullId /\ f.person_id # NullId

\* C21: after a photo was processed, every face of it for which the
\* extractor returned an embedding has that embedding and the model tag
\* stored, whether the matcher found a person for it or not and whether the
\* face had a person link before or not.
ExtractedEmbeddingsStored ==
    last.op = "upload_process" =>
        \A f \in Processed :
            Extracted(f) # NoEmbedding =>
                /\ get_embedding(f) = Extracted(f)
                /\ f.embedding_model = FacenetModel
                /\ get_embedding(Row(faces, f.id)) = Extracted(f)
                /\ Row(faces, f.id).embedding_model = FacenetModel

\* A photo was processed in which one face was linked beforehand and another
\* found no match, and both have their embeddings.
StoredWithAndWithoutLink ==
    /\ last.op = "upload_process"
    /\ \E f, g \in Processed :
          /\ Extracted(f) # NoEmbedding /\ Extracted(g) # NoEmbedding
          /\ Before(f).person_id = NullId /\ f.person_id = NullId
          /\ Before(g).person_id # NullId
          /\ get_embedding(f) # NoEmbedding /\ get_embedding(g) # NoEmbedding

\* C22: auto-matching sets a face's person link only when the link is null
\* when the face is processed and never replaces an existing link, and the
\* auto_matched count the upload reports is the number of faces of the photo
\* whose link the matcher set in that run.
AutoMatchOnlyFillsNullLinks ==
    last.op = "upload_process" =>
        /\ \A f \in Processed :
              Before(f).person_id # NullId => f.person_id = Before(f).person_id
        /\ \A f \in last.aux.after \ Processed : f \in last.aux.before
        /\ last.res = Cardinality({f \in Processed : AutoMatched(f)})

\* One face of the photo was auto-matched, and another, linked beforehand,
\* kept its person although a face of a different person was like it.
LinkedFaceKeptItsPerson ==
    /\ last.op = "upload_process"
    /\ last.res = 1
    /\ \E f \in Processed : \E g \in last.aux.after :
          /\ Before(f).person_id # NullId
          /\ f.person_id = Before(f).person_id
          /\ Extracted(f) # NoEmbedding
          /\ g.id # f.id
          /\ g.person_id \notin {NullId, f.person_id}
          /\ get_embedding(g) # NoEmbedding
          /\ compute_similarity(Extracted(f), get_embedding(g)) >= DefaultThreshold

\* C23: when the extractor returns nothing for a face, the upload still
\* succeeds: the face is kept without embedding and with the link it had,
\* and the other faces of the photo are processed all the same.
FailedExtractionIsSkipped ==
    last.op = "upload_process" =>
        /\ last.aux.status = 201
        /\ {f.id : f \in Processed} =
              {f.id : f \in {b \in last.aux.before : b.photo_id \in last.ids}}
        /\ \A f \in Processed :
              IF Extracted(f) = NoEmbedding
              THEN /\ get_embedding(f) = NoEmbedding
                   /\ f.embedding_model = NullModel
                   /\ f.person_id = Before(f).person_id
                   /\ Row(faces, f.id) = f
              ELSE get_embedding(f) = Extracted(f)

\* The first face taken had no embedding and the one after it was
\* auto-matched.
LaterFaceProcessedAfterFailure ==
    /\ last.op = "upload_process"
    /\ \E f, g \in Processed :
          /\ Turn(f) < Turn(g)
          /\ Extracted(f) = NoEmbedding
          /\ get_embedding(f) = NoEmbedding
          /\ AutoMatched(g)

\* The faces that are match candidates when f is taken: every other face of
\* the user with a stored embedding and a person link at that moment.  A
\* face of the same photo taken earlier is as the processing left it, one
\* taken later is as it was before.
AtTurn(f) ==
    {g \in last.aux.after :
        /\ g.id # f.id
        /\ PhotoOwner(photos, g) = PhotoOwner(photos, f)
        /\ IF g \in Processed /\ Turn(g) > Turn(f)
           THEN Before(g).person_id # NullId /\ get_embedding(Before(g)) # NoEmbedding
           ELSE g.person_id # NullId /\ get_embedding(g) # NoEmbedding}
Reaching(f) ==
    {g \in AtTurn(f) :
        compute_similarity(Extracted(f), get_embedding(g)) >= DefaultThreshold}

\* C28: while the faces of a photo are processed, a face is never matched
\* against itself, a face of the same photo taken earlier and linked is a
\* candidate for the faces taken later, and a face is auto-matched exactly
\* when some other face with a person link reaches the threshold, to the
\* person of such a face.
SamePhotoCandidates ==
    last.op = "upload_process" =>
        \A f \in Processed :
            Extracted(f) # NoEmbedding /\ Before(f).person_id = NullId =>
                /\ f.person_id # NullId <=> Reaching(f) # {}
                /\ f.person_id # NullId => f.person_id \in {g.person_id : g \in Reaching(f)}

\* A face was auto-matched through nothing but a face of the same photo that
\* had itself been auto-matched just before.
MatchedThroughEarlierFace ==
    /\ last.op = "upload_process"
    /\ \E f \in Processed :
          /\ AutoMatched(f)
          /\ Reaching(f) # {}
          /\ \A g \in Reaching(f) : g \in Processed /\ AutoMatched(g) /\ Turn(g) < Turn(f)

\* ------------------------------------------------------------------------
\* The orphan pass of a photo deletion, step by step
\* ------------------------------------------------------------------------
Occurrences(seq, x) == Cardinality({i \in 1..Len(seq) : seq[i] = x})
Deleting(call) == call.pc \in {"collected", "deleted"}

\* C24: in delete_photo and delete_photos_batch the persons the doomed faces
\* reference are collected before the deletion, the orphan check runs only
\* after the deletion is committed, and each collected person is checked
\* exactly once per operation, also when several deleted photos reference
\* it.
OrphanCheckOncePerPerson ==
    [][\A proc \in Procs :
        /\ calls[proc].pc = "idle" /\ calls'[proc].pc = "collected" =>
              /\ calls'[proc].person_ids = linked_persons(TheDb, calls'[proc].photo_ids)
              /\ \A x \in calls'[proc].photo_ids : HasRow(photos', x)
              /\ calls'[proc].checked = <<>>
        /\ calls[proc].pc = "collected" /\ calls'[proc].pc # "collected" =>
              /\ calls'[proc].person_ids = calls[proc].person_ids
              /\ calls[proc].checked = <<>>
              /\ \A x \in calls[proc].photo_ids : ~HasRow(photos', x)
        /\ Deleting(calls[proc]) /\ calls'[proc].checked # calls[proc].checked =>
              /\ \A x \in calls[proc].photo_ids : ~HasRow(photos, x)
              /\ \E pid \in calls[proc].person_ids :
                    calls'[proc].checked = Append(calls[proc].checked, pid)
        /\ Deleting(calls[proc]) /\ calls'[proc].pc = "done" =>
              /\ \A pid \in calls[proc].person_ids :
                    Occurrences(calls'[proc].checked, pid) = 1
              /\ Len(calls'[proc].checked) = Cardinality(calls[proc].person_ids)
      ]_vars

\* A batch deletion is over in which several deleted faces referenced one
\* person, who was looked at once and deleted.
SharedPersonCheckedOnce ==
    \E proc \in Procs :
        /\ calls[proc].pc = "done"
        /\ calls[proc].op = "batch_delete"
        /\ Cardinality(calls[proc].photo_ids) >= 2
        /\ calls[proc].linked_faces >= 2
        /\ Cardinality(calls[proc].person_ids) = 1
        /\ Len(calls[proc].checked) = 1
        /\ calls[proc].orphans = calls[proc].person_ids
        /\ \A pid \in calls[proc].person_ids : ~HasRow(persons, pid)

\* C27: however a photo deletion (the commit of the deletion, then the
\* count and the delete for each collected person) interleaves with a
\* request that links another face to the same person, no face is left
\* linked to a person the deletion removed.
NoLinkToDeletedPerson ==
    \A proc \in Procs :
        calls[proc].pc = "done" /\ calls[proc].op \in DeleteOps =>
            \A pid \in calls[proc].orphans :
                ~HasRow(persons, pid) => ~\E f \in faces : f.person_id = pid

\* ------------------------------------------------------------------------
\* Targets that do not exist
\* ------------------------------------------------------------------------
NotFoundOps == {"assign", "remove_person", "remove_photo"}
StrippedNames == {strip(n) : n \in RawNames} \ {<<>>}

\* What each of the three functions does in the present state when given an
\* id no row has: it reports not-found and returns the store as it is.
MissingTargetRefused ==
    \A u \in Users :
        /\ \A f \in 1..(MaxFaceId + 1) : \A n \in StrippedNames :
              ~HasRow(faces, f) =>
                  assign_face_to_person(TheDb, f, n, u) = [db |-> TheDb, found |-> FALSE]
        /\ \A p \in 1..(MaxPersonId + 1) :
              ~HasRow(persons, p) => delete_person(TheDb, p, u) = [db |-> TheDb, ok |-> FALSE]
        /\ \A x \in 1..(MaxUploads + 1) :
              ~HasRow(photos, x) => delete_photo(TheDb, x, u) = [db |-> TheDb, ok |-> FALSE]

\* C25: when the target id does not exist, assign_face_to_person,
\* delete_person and delete_photo report not-found and leave photos, faces
\* and persons as they are; assigning a new name to a face id that does not
\* exist creates no person.
NotFoundChangesNothing ==
    /\ []MissingTargetRefused
    /\ [][(last'.op \in NotFoundOps /\ last'.res = 404) =>
              UNCHANGED <<photos, faces, persons>>]_vars

\* A name was given for a face id that no face has, while faces exist and no
\* person does: the answer was not-found and still no person exists.
NewNameForMissingFace ==
    /\ last.op = "assign"
    /\ last.res = 404
    /\ faces # {}
    /\ persons = {}

\* ------------------------------------------------------------------------
\* Links and frames
\* ------------------------------------------------------------------------
\* C26: with the requests served one at a time, after any sequence of
\* uploads, assignments, person creations, person deletions, photo
\* deletions and batch deletions, every face with a person link references
\* a person that exists.
ReferentialIntegrity ==
    \A f \in faces : f.person_id # NullId => HasRow(persons, f.person_id)

\* A person two faces were linked to was deleted, and both faces are there
\* without a link.
BothFacesUnlinked ==
    /\ last.op = "remove_person"
    /\ last.res = 200
    /\ Len(last.aux) = 2
    /\ \A i \in 1..Len(last.aux) :
          HasRow(faces, last.aux[i]) /\ Row(faces, last.aux[i]).person_id = NullId
    /\ \A pid \in last.ids : ~HasRow(persons, pid)

\* C29: a photo deletion changes nothing besides the deleted photos, their
\* faces and the persons their faces referenced: every other photo stays as
\* it is, content hash included, every face of another photo stays as it
\* is, every person no deleted face referenced stays, and a referenced
\* person is removed only if no face references it afterwards.
DeletePhotoFrame ==
    [][(last'.op \in DeleteOps /\ last'.ids # {}) =>
          /\ photos' = {p \in photos : p.id \notin last'.ids}
          /\ faces' = {f \in faces : f.photo_id \notin last'.ids}
          /\ persons' \subseteq persons
          /\ \A p \in persons :
                p.id \notin linked_persons(TheDb, last'.ids) => p \in persons'
          /\ \A p \in persons \ persons' : FacesOf(faces', p.id) = {}]_vars

\* One photo was deleted and a person its face referenced with it, while
\* another photo and a person without any face are still there.
OnlyReferencedPersonRemoved ==
    /\ last.op = "remove_photo"
    /\ last.res = 200
    /\ \E i \in 1..Len(last.aux) : ~HasRow(persons, last.aux[i])
    /\ photos # {}
    /\ \E p \in persons : FacesOf(faces, p.id) = {}

\* ------------------------------------------------------------------------
\* The purge of duplicates
\* ------------------------------------------------------------------------
\* The photos of the purging user with content hash h before the purge, and
\* the hashes more than one of them had.
Had(h) == {p \in last.aux.before : p.user_id = last.aux.user_id /\ p.file_hash = h}
FormerlyShared == {h \in DupHashes : Cardinality(Had(h)) >= 2}

\* C30: when the ids staged by the purge of a user's duplicates are deleted
\* for that user and nothing happened in between, the user has no duplicate
\* group afterwards, and of every hash that was duplicated exactly one photo
\* of the user is left, the one uploaded first.
PurgeLeavesOldest ==
    (last.op = "purge" /\ last.aux.before = last.aux.seen) =>
        /\ \A s \in PhotoScans, hs \in HashScans(DupHashes) :
              get_all_duplicates(TheDb, last.aux.user_id, s, hs) = <<>>
        /\ \A h \in FormerlyShared : SameContent(last.aux.user_id, h) = {Oldest(Had(h))}

\* A purge staged for two groups was confirmed at once: three photos went
\* and one photo of each content is left.
TwoGroupsPurged ==
    /\ last.op = "purge"
    /\ last.aux.before = last.aux.seen
    /\ Len(last.aux.staged) = 3
    /\ last.res = 3
    /\ Cardinality(FormerlyShared) = 2
    /\ \A h \in FormerlyShared : Cardinality(SameContent(last.aux.user_id, h)) = 1
====
